---- MODULE Spec2Model ----
(***************************************************************************)
(* Crypt_Server/Server.py: the server side of the key exchange             *)
(* (Server.key_exchange) and of the session that follows it                *)
(* (Connection.send / recv / close), over a TCP byte stream.               *)
(*                                                                         *)
(* Every byte string of the program (keys, tokens, messages) is a          *)
(* sequence of naturals.  What travels on a socket is a sequence of        *)
(* elements, each a record [t, v, k, m, i]:                                *)
(*   t = "byte"  one byte of value v; k = <<>> for a byte written as is,   *)
(*               k = the AES key for the i-th byte of the ciphertext of m  *)
(*   t = "plain" a handshake message written as is (m)                     *)
(*   t = "rsa"   a handshake message: m encrypted under the public key k   *)
(*   t = "junk"  handshake bytes that are no RSA ciphertext                *)
(* A handshake message is short and is kept as one element; the session    *)
(* frames are kept byte by byte, since socket.recv(n) returns at most n    *)
(* bytes and as few as one.                                                *)
(***************************************************************************)
EXTENDS Integers, Sequences, FiniteSets, TLC

\* ------------------------------------------------------------ bounds
\* token_size of key_exchange and number_size of send/recv are parameters
\* of the calls; the model runs them with small values.
token_size == 1
number_size == 1
MaxClientSends == 1
MaxServerSends == 1
MaxRecvs == 2
MaxTicks == 2
MaxCloses == 2

\* ------------------------------------------------------------ constants
tunnel_anchor == 1048576
ByteBase == 256

Min(a, b) == IF a < b THEN a ELSE b

Take(s, n) == SubSeq(s, 1, Min(n, Len(s)))
Drop(s, n) == SubSeq(s, Min(n, Len(s)) + 1, Len(s))

\* ------------------------------------------------------------ str / bytes
\* A str is a sequence of code points.  str.encode() / bytes.decode() are
\* UTF-8: one byte below 128, two bytes for code points 128..2047.
RECURSIVE Encode(_)
Encode(s) ==
    IF s = <<>> THEN <<>>
    ELSE LET cp == Head(s) IN
         (IF cp < 128 THEN <<cp>> ELSE <<192 + (cp \div 64), 128 + (cp % 64)>>)
         \o Encode(Tail(s))

\* [ok |-> FALSE] stands for UnicodeDecodeError.
RECURSIVE Decode(_)
Decode(b) ==
    IF b = <<>> THEN [ok |-> TRUE, val |-> <<>>]
    ELSE IF b[1] < 128
         THEN LET r == Decode(Tail(b)) IN
              [ok |-> r.ok, val |-> <<b[1]>> \o r.val]
    ELSE IF b[1] >= 194 /\ b[1] <= 223 /\ Len(b) >= 2 /\ b[2] >= 128 /\ b[2] <= 191
         THEN LET r == Decode(Tail(Tail(b))) IN
              [ok |-> r.ok, val |-> <<(b[1] - 192) * 64 + (b[2] - 128)>> \o r.val]
    ELSE [ok |-> FALSE, val |-> <<>>]

\* int.to_bytes(n, "big") / int.from_bytes(b, "big")
RECURSIVE to_bytes(_, _)
to_bytes(x, n) ==
    IF n = 0 THEN <<>> ELSE Append(to_bytes(x \div ByteBase, n - 1), x % ByteBase)

\* x fits in n bytes (to_bytes raises OverflowError when it does not).
RECURSIVE Fits(_, _)
Fits(x, n) == IF n = 0 THEN x = 0 ELSE Fits(x \div ByteBase, n - 1)

RECURSIVE from_bytes(_)
from_bytes(b) ==
    IF b = <<>> THEN 0
    ELSE from_bytes(SubSeq(b, 1, Len(b) - 1)) * ByteBase + b[Len(b)]

\* The values of the bytes of a sequence of stream elements.
Values(e) == [i \in 1..Len(e) |-> e[i].v]

\* ------------------------------------------------------------ transport elements
PlainBytes(s) ==
    [i \in 1..Len(s) |-> [t |-> "byte", v |-> s[i], k |-> <<>>, m |-> s, i |-> i]]

PlainBlob(s) == [t |-> "plain", v |-> 0, k |-> <<>>, m |-> s, i |-> 0]
JunkBlob == [t |-> "junk", v |-> 0, k |-> <<>>, m |-> <<>>, i |-> 0]

\* ------------------------------------------------------------ Crypt
\* Crypt_Server/Crypt.py is not among the sources: its functions follow the
\* Crypto Provider API of the specification.
ServerKeys == [PUBLIC |-> <<80>>, PRIVATE |-> <<81>>]
ClientKeys == [PUBLIC |-> <<70>>, PRIVATE |-> <<71>>]

PublicOf(private) == [i \in 1..Len(private) |-> private[i] - 1]
IsPublicKey(k) == k \in {ServerKeys.PUBLIC, ClientKeys.PUBLIC}

\* The r-th draw of n bytes from the random generator: no two draws agree.
RandomBytes(n, r) == [i \in 1..n |-> 10 + r]

\* Crypt.generate_aes(32): the key is one opaque symbol here.
generate_aes(r) == RandomBytes(1, r)

\* Variant: one token, drawn once, serves every connection.
get_random_bytes_once(n, r) == RandomBytes(n, 0)

get_random_bytes(n, r) == RandomBytes(n, r)

\* [ok |-> FALSE] stands for the exception the function raises.
encrypt_rsa(data, public) ==
    [ok  |-> IsPublicKey(public),
     val |-> <<[t |-> "rsa", v |-> 0, k |-> public, m |-> data, i |-> 0]>>]

decrypt_rsa(data, private) ==
    IF Len(data) = 1 /\ data[1].t = "rsa" /\ data[1].k = PublicOf(private)
    THEN [ok |-> TRUE, val |-> data[1].m]
    ELSE [ok |-> FALSE, val |-> <<>>]

\* iv: the value the ciphertext bytes take (the cipher's randomness).
encrypt_aes(msg, key, iv) ==
    [i \in 1..Len(msg) |-> [t |-> "byte", v |-> iv, k |-> key, m |-> msg, i |-> i]]

decrypt_aes(ct, key) ==
    IF /\ ct # <<>>
       /\ \A i \in 1..Len(ct) :
            ct[i].t = "byte" /\ ct[i].k = key /\ ct[i].i = i /\ ct[i].m = ct[1].m
       /\ Len(ct) = Len(ct[1].m)
    THEN [ok |-> TRUE, val |-> ct[1].m]
    ELSE [ok |-> FALSE, val |-> <<>>]

\* ------------------------------------------------------------ state
VARIABLES
    claves,      \* Server.claves
    rng,         \* draws made from the random generator so far
    drawn,       \* c -> the values key_exchange drew for c
    socks,       \* c -> the accepted socket: [open, timeout, rbuf]
    net,         \* c -> elements the client wrote that have not arrived yet
    reset,       \* c -> the transport was reset (socket calls raise OSError)
    wire,        \* c -> everything the server wrote to the socket, in order
    peer,        \* c -> the client
    kx,          \* c -> the frame of Server.key_exchange
    oplog,       \* c -> the socket operations key_exchange completed
    connection,  \* c -> the Connection object key_exchange returned
    rx,          \* c -> the frame of Connection.recv
    sendLog,     \* c -> the frames the client sent
    recvLog,     \* c -> the outcome of every finished Connection.recv
    txLog,       \* c -> the outcome of every finished Connection.send
    closeLog,    \* c -> the outcome of every call of Connection.close
    now          \* time()

vars == <<claves, rng, drawn, socks, net, reset, wire, peer, kx, oplog, connection,
          rx, sendLog, recvLog, txLog, closeLog, now>>

Conns == DOMAIN kx

NoBytes == <<>>

NoConnection ==
    [made |-> FALSE, client_token |-> NoBytes, server_token |-> NoBytes,
     aes_key |-> NoBytes, last_query |-> 0, query_cooldown |-> 0]

KxStart ==
    [pc |-> "start", aes_key |-> NoBytes, public |-> NoBytes,
     server_token |-> NoBytes, token |-> NoBytes, raised |-> "none"]

RxIdle ==
    [pc |-> "idle", long |-> 0, read |-> 0, gone |-> FALSE, arrived |-> FALSE, sent |-> 0]

PeerStart ==
    [pc |-> "init", closed |-> FALSE, conforming |-> TRUE, token |-> NoBytes,
     server_token |-> NoBytes, aes_key |-> NoBytes]

\* time() when the server starts (seconds since the epoch, far above any cooldown)
StartTime == 100

InitFor(S) ==
    /\ claves = ServerKeys
    /\ rng = 0
    /\ drawn = [c \in S |-> {}]
    /\ socks = [c \in S |-> [open |-> TRUE, timeout |-> "None", rbuf |-> <<>>]]
    /\ net = [c \in S |-> <<>>]
    /\ reset = [c \in S |-> FALSE]
    /\ wire = [c \in S |-> <<>>]
    /\ peer = [c \in S |-> PeerStart]
    /\ kx = [c \in S |-> KxStart]
    /\ oplog = [c \in S |-> <<>>]
    /\ connection = [c \in S |-> NoConnection]
    /\ rx = [c \in S |-> RxIdle]
    /\ sendLog = [c \in S |-> <<>>]
    /\ recvLog = [c \in S |-> <<>>]
    /\ txLog = [c \in S |-> <<>>]
    /\ closeLog = [c \in S |-> <<>>]
    /\ now = StartTime

Init == InitFor({1})

\* ------------------------------------------------------------ socket
\* The client closed and all it wrote has arrived.
Gone(c) == peer[c].closed /\ net[c] = <<>>

\* recv on c would return b"": nothing is left to read.
Eof(c) == Gone(c) /\ socks[c].rbuf = <<>>

\* A socket call raises OSError: the socket is closed, or the transport reset.
SockFails(c) == ~socks[c].open \/ reset[c]

\* socket.recv blocks until something can be read.
Readable(c) == socks[c].rbuf # <<>> \/ Eof(c)

\* socket.recv raises socket.timeout: a timeout is set and nothing arrived.
TimesOut(c) == socks[c].timeout # "None" /\ ~Readable(c)

Timeouts == {"None", "finite"}

\* ------------------------------------------------------------ Connection
\* Variant: the two tokens are stored in each other's place.
ConnectionSwapsTokens(conn, client_token, server_token, aes_key) ==
    [made |-> TRUE, client_token |-> server_token, server_token |-> client_token,
     aes_key |-> aes_key, last_query |-> 0, query_cooldown |-> 0]

Connection(conn, client_token, server_token, aes_key) ==
    [made |-> TRUE, client_token |-> client_token, server_token |-> server_token,
     aes_key |-> aes_key, last_query |-> 0, query_cooldown |-> 0]

\* ------------------------------------------------------------ Server.key_exchange
\* What key_exchange writes in steps 1, 3 and 5.
KxPublicMessage(keys) == [ok |-> TRUE, val |-> <<PlainBlob(keys.PUBLIC)>>]
\* Variant: step 3 sends what step 5 should.
KxTokenMessageSendsKey(server_token, aes_key, public) == encrypt_rsa(aes_key, public)

KxTokenMessage(server_token, aes_key, public) == encrypt_rsa(server_token, public)

\* Variant: step 5 writes the symmetric key as it is.
KxKeyMessagePlain(server_token, aes_key, public) ==
    [ok |-> TRUE, val |-> <<PlainBlob(aes_key)>>]

KxKeyMessage(server_token, aes_key, public) == encrypt_rsa(aes_key, public)

\* Variant: the except clause raises without closing the socket.
KxAbortLeavesOpen(c) ==
    /\ UNCHANGED socks
    /\ kx' = [kx EXCEPT ![c] = [KxStart EXCEPT !.pc = "failed",
                                               !.raised = "KeyExchangeFailed"]]

\* except: conn.close(); raise KeyExchangeFailed.  The locals of the call die
\* with its frame.
KxAbort(c) ==
    /\ socks' = [socks EXCEPT ![c].open = FALSE, ![c].rbuf = <<>>]
    /\ kx' = [kx EXCEPT ![c] = [KxStart EXCEPT !.pc = "failed",
                                               !.raised = "KeyExchangeFailed"]]

KxLog(c, step, op, data) ==
    oplog' = [oplog EXCEPT ![c] = Append(@, [step |-> step, op |-> op, data |-> data])]

\* conn.settimeout(timeout); aes_key = generate_aes(32); conn.send(PUBLIC)
key_exchange_1(c, timeout) ==
    /\ kx[c].pc = "start"
    /\ rng' = rng + 1
    /\ LET msg == KxPublicMessage(claves) IN
       IF msg.ok /\ ~SockFails(c)
       THEN /\ socks' = [socks EXCEPT ![c].timeout = timeout]
            /\ kx' = [kx EXCEPT ![c].pc = "s1", ![c].aes_key = generate_aes(rng + 1)]
            /\ wire' = [wire EXCEPT ![c] = @ \o msg.val]
            /\ KxLog(c, 1, "send", msg.val)
       ELSE /\ KxAbort(c)
            /\ UNCHANGED <<wire, oplog>>
    /\ drawn' = [drawn EXCEPT ![c] = @ \cup {generate_aes(rng + 1)}]
    /\ UNCHANGED <<claves, closeLog, net, reset, peer, connection, rx, sendLog, recvLog, txLog, now>>

\* public = decrypt_rsa(conn.recv(tunnel_anchor), PRIVATE).decode()
key_exchange_2(c) ==
    /\ kx[c].pc = "s1"
    /\ \/ /\ ~SockFails(c) /\ Readable(c)
          /\ LET data == Take(socks[c].rbuf, tunnel_anchor)
                 plain == decrypt_rsa(data, claves.PRIVATE)
                 text == Decode(plain.val)
             IN IF plain.ok /\ text.ok
                THEN /\ socks' = [socks EXCEPT ![c].rbuf = Drop(@, tunnel_anchor)]
                     /\ kx' = [kx EXCEPT ![c].pc = "s2", ![c].public = text.val]
                     /\ KxLog(c, 2, "recv", data)
                ELSE /\ KxAbort(c)
                     /\ UNCHANGED oplog
       \/ /\ SockFails(c) \/ TimesOut(c)
          /\ KxAbort(c)
          /\ UNCHANGED oplog
    /\ UNCHANGED <<claves, closeLog, drawn, rng, net, reset, wire, peer, connection, rx, sendLog,
                   recvLog, txLog, now>>

\* server_token = get_random_bytes(token_size); conn.send(encrypt_rsa(server_token, public))
key_exchange_3(c) ==
    /\ kx[c].pc = "s2"
    /\ rng' = rng + 1
    /\ LET server_token == get_random_bytes(token_size, rng + 1)
           msg == KxTokenMessage(server_token, kx[c].aes_key, kx[c].public)
       IN IF msg.ok /\ ~SockFails(c)
          THEN /\ kx' = [kx EXCEPT ![c].pc = "s3", ![c].server_token = server_token]
               /\ wire' = [wire EXCEPT ![c] = @ \o msg.val]
               /\ KxLog(c, 3, "send", msg.val)
               /\ UNCHANGED socks
          ELSE /\ KxAbort(c)
               /\ UNCHANGED <<wire, oplog>>
    /\ drawn' = [drawn EXCEPT ![c] = @ \cup {get_random_bytes(token_size, rng + 1)}]
    /\ UNCHANGED <<claves, closeLog, net, reset, peer, connection, rx, sendLog, recvLog, txLog, now>>

\* token = decrypt_rsa(conn.recv(tunnel_anchor), PRIVATE)
key_exchange_4(c) ==
    /\ kx[c].pc = "s3"
    /\ \/ /\ ~SockFails(c) /\ Readable(c)
          /\ LET data == Take(socks[c].rbuf, tunnel_anchor)
                 plain == decrypt_rsa(data, claves.PRIVATE)
             IN IF plain.ok
                THEN /\ socks' = [socks EXCEPT ![c].rbuf = Drop(@, tunnel_anchor)]
                     /\ kx' = [kx EXCEPT ![c].pc = "s4", ![c].token = plain.val]
                     /\ KxLog(c, 4, "recv", data)
                ELSE /\ KxAbort(c)
                     /\ UNCHANGED oplog
       \/ /\ SockFails(c) \/ TimesOut(c)
          /\ KxAbort(c)
          /\ UNCHANGED oplog
    /\ UNCHANGED <<claves, closeLog, drawn, rng, net, reset, wire, peer, connection, rx, sendLog,
                   recvLog, txLog, now>>

\* conn.send(encrypt_rsa(aes_key, public)); return Connection(conn, token, server_token, aes_key)
key_exchange_5(c) ==
    /\ kx[c].pc = "s4"
    /\ LET msg == KxKeyMessage(kx[c].server_token, kx[c].aes_key, kx[c].public)
       IN IF msg.ok /\ ~SockFails(c)
          THEN /\ kx' = [kx EXCEPT ![c] = [KxStart EXCEPT !.pc = "done"]]
               /\ wire' = [wire EXCEPT ![c] = @ \o msg.val]
               /\ KxLog(c, 5, "send", msg.val)
               /\ connection' = [connection EXCEPT ![c] =
                     Connection(c, kx[c].token, kx[c].server_token, kx[c].aes_key)]
               /\ UNCHANGED socks
          ELSE /\ KxAbort(c)
               /\ UNCHANGED <<wire, oplog, connection>>
    /\ UNCHANGED <<claves, closeLog, drawn, rng, net, reset, peer, rx, sendLog, recvLog, txLog, now>>

\* ------------------------------------------------------------ the client
\* The client is not among the sources: it follows the protocol of the
\* specification, or departs from it where an action says so.

\* What a client may send as its public key: the key, text that is no key,
\* bytes that are no text.
HelloPayloads == {Encode(ClientKeys.PUBLIC), <<195, 169>>, <<255>>}

\* The tokens a client may pick.
ClientTokens == {[i \in 1..token_size |-> 65]}

\* The client still has a transport to write to.  (What it does once the
\* server's socket is closed reaches nobody.)
Connected(c) == ~peer[c].closed /\ ~reset[c] /\ socks[c].open

\* Step 2: after the server's public key arrived.
client_hello(c, payload) ==
    /\ peer[c].pc = "init" /\ Connected(c)
    /\ Len(wire[c]) >= 1
    /\ LET msg == encrypt_rsa(payload, wire[c][1].m) IN
       /\ msg.ok
       /\ net' = [net EXCEPT ![c] = @ \o msg.val]
    /\ peer' = [peer EXCEPT ![c].pc = "hello",
                            ![c].conforming = (payload = Encode(ClientKeys.PUBLIC))]
    /\ UNCHANGED <<claves, closeLog, drawn, rng, socks, reset, wire, kx, oplog, connection, rx,
                   sendLog, recvLog, txLog, now>>

\* Bytes that are no RSA ciphertext (or only the first part of one), in place
\* of the message of step 2 or 4.
client_junk(c) ==
    /\ peer[c].pc \in {"init", "hello"} /\ Connected(c)
    /\ Len(wire[c]) >= (IF peer[c].pc = "init" THEN 1 ELSE 2)
    /\ net' = [net EXCEPT ![c] = Append(@, JunkBlob)]
    /\ peer' = [peer EXCEPT ![c].pc = "stray", ![c].conforming = FALSE]
    /\ UNCHANGED <<claves, closeLog, drawn, rng, socks, reset, wire, kx, oplog, connection, rx,
                   sendLog, recvLog, txLog, now>>

\* Step 4: after the server-token arrived.
client_reply(c, token) ==
    /\ peer[c].pc = "hello" /\ Connected(c)
    /\ Len(wire[c]) >= 2
    /\ LET got == decrypt_rsa(<<wire[c][2]>>, ClientKeys.PRIVATE)
           msg == encrypt_rsa(token, wire[c][1].m)
       IN /\ got.ok /\ msg.ok
          /\ net' = [net EXCEPT ![c] = @ \o msg.val]
          /\ peer' = [peer EXCEPT ![c].pc = "token", ![c].token = token,
                                  ![c].server_token = got.val]
    /\ UNCHANGED <<claves, closeLog, drawn, rng, socks, reset, wire, kx, oplog, connection, rx,
                   sendLog, recvLog, txLog, now>>

\* After step 5: the client holds the symmetric key.
client_finish(c) ==
    /\ peer[c].pc = "token" /\ Connected(c)
    /\ Len(wire[c]) >= 3
    /\ LET got == decrypt_rsa(<<wire[c][3]>>, ClientKeys.PRIVATE) IN
       /\ got.ok
       /\ peer' = [peer EXCEPT ![c].pc = "established", ![c].aes_key = got.val]
    /\ UNCHANGED <<claves, closeLog, drawn, rng, socks, net, reset, wire, kx, oplog, connection, rx,
                   sendLog, recvLog, txLog, now>>

\* The client closes its end: the server reads what was sent, then b"".
client_close(c) ==
    /\ Connected(c)
    /\ peer' = [peer EXCEPT ![c].closed = TRUE]
    /\ UNCHANGED <<claves, closeLog, drawn, rng, socks, net, reset, wire, kx, oplog, connection, rx,
                   sendLog, recvLog, txLog, now>>

\* ------------------------------------------------------------ the network
\* The next n elements in flight arrive in the server's receive buffer.
Deliver(c, n) ==
    /\ socks[c].open /\ ~reset[c]
    /\ n \in 1..Len(net[c])
    /\ socks' = [socks EXCEPT ![c].rbuf = @ \o Take(net[c], n)]
    /\ net' = [net EXCEPT ![c] = Drop(@, n)]
    /\ UNCHANGED <<claves, closeLog, drawn, rng, reset, wire, peer, kx, oplog, connection, rx,
                   sendLog, recvLog, txLog, now>>

\* The transport breaks: every later socket call raises OSError.
NetReset(c) ==
    /\ ~reset[c] /\ socks[c].open
    /\ reset' = [reset EXCEPT ![c] = TRUE]
    /\ net' = [net EXCEPT ![c] = <<>>]
    /\ UNCHANGED <<claves, closeLog, drawn, rng, socks, wire, peer, kx, oplog, connection, rx,
                   sendLog, recvLog, txLog, now>>

\* ------------------------------------------------------------ Connection.close
\* Variant: close shuts nothing.
close_keeps_open(c) == UNCHANGED socks

\* try: conn.shutdown(SHUT_RDWR) except OSError: pass; conn.close()
close(c) == socks' = [socks EXCEPT ![c].open = FALSE, ![c].rbuf = <<>>]

\* Variant: the OSError of shutdown leaves close.
shutdown_failed_raises(c) == "OSError"

\* except OSError: pass
shutdown_failed(c) == "none"

\* conn.shutdown raises OSError on a socket that is closed or not connected
\* any more; after the client's close alone it does not.
Connection_close(c, calls) ==
    /\ connection[c].made /\ rx[c].pc = "idle"
    /\ Len(closeLog[c]) < calls
    /\ LET exc == IF SockFails(c) THEN shutdown_failed(c) ELSE "none" IN
       /\ IF exc = "none" THEN close(c) ELSE UNCHANGED socks
       /\ closeLog' = [closeLog EXCEPT ![c] = Append(@,
             [exc |-> exc, open |-> socks'[c].open, was_open |-> socks[c].open,
              half |-> peer[c].closed, reset |-> reset[c]])]
    /\ UNCHANGED <<claves, drawn, rng, net, reset, wire, peer, kx, oplog, connection, rx,
                   sendLog, recvLog, txLog, now>>

\* ------------------------------------------------------------ Connection.set_query_cooldown
\* The cooldowns the application sets, in seconds.
Cooldowns == {0, 2}

set_query_cooldown(c, cooldown) ==
    /\ connection[c].made /\ rx[c].pc = "idle"
    /\ connection' = [connection EXCEPT ![c].query_cooldown = cooldown]
    /\ UNCHANGED <<claves, closeLog, drawn, rng, socks, net, reset, wire, peer, kx, oplog, rx,
                   sendLog, recvLog, txLog, now>>

\* A second passes.
Tick ==
    /\ now < StartTime + MaxTicks
    /\ now' = now + 1
    /\ UNCHANGED <<claves, closeLog, drawn, rng, socks, net, reset, wire, peer, kx, oplog,
                   connection, rx, sendLog, recvLog, txLog>>

\* ------------------------------------------------------------ Connection.send
\* The strings the application sends.
Strings == {<<65>>, <<233>>}

\* The values the bytes of a ciphertext take.
CtValues == {0, 2}

\* leng + msg of send: the frame of one message.
Frame(token, payload, key, iv) ==
    LET ct == encrypt_aes(token \o payload, key, iv) IN
    PlainBytes(to_bytes(Len(ct), number_size)) \o ct

\* Variant: the except clause raises without closing.
send_failed_leaves_open(c) == UNCHANGED socks

\* except socket.error: self.close(); raise DisconnectedClient
send_failed(c) == close(c)

\* socket.send(data) raises: the socket is closed or reset, or a timeout is
\* set and the send buffer stays full.
SendMayFail(c) == SockFails(c) \/ socks[c].timeout # "None"

Connection_send(c, msg, iv) ==
    /\ connection[c].made /\ rx[c].pc = "idle"
    /\ Len(txLog[c]) < MaxServerSends
    /\ LET frame == Frame(connection[c].server_token, Encode(msg),
                          connection[c].aes_key, iv)
       IN \/ /\ ~Fits(Len(frame) - number_size, number_size)
             \* len(msg).to_bytes(number_size, "big") raises OverflowError
             /\ txLog' = [txLog EXCEPT ![c] = Append(@,
                   [exc |-> "OverflowError", open |-> socks[c].open,
                    frame |-> <<>>, wrote |-> 0])]
             /\ UNCHANGED <<socks, wire>>
          \/ /\ Fits(Len(frame) - number_size, number_size)
             /\ ~SockFails(c)
             \* socket.send writes the first n bytes and returns n
             /\ \E n \in 1..Len(frame) :
                  /\ wire' = [wire EXCEPT ![c] = @ \o Take(frame, n)]
                  /\ txLog' = [txLog EXCEPT ![c] = Append(@,
                        [exc |-> "none", open |-> socks[c].open,
                         frame |-> frame, wrote |-> n])]
             /\ UNCHANGED socks
          \/ /\ Fits(Len(frame) - number_size, number_size)
             /\ SendMayFail(c)
             /\ send_failed(c)
             /\ txLog' = [txLog EXCEPT ![c] = Append(@,
                   [exc |-> "DisconnectedClient", open |-> socks'[c].open,
                    frame |-> frame, wrote |-> 0])]
             /\ UNCHANGED wire
    /\ UNCHANGED <<claves, closeLog, drawn, rng, net, reset, peer, kx, oplog, connection, rx,
                   sendLog, recvLog, now>>

\* ------------------------------------------------------------ Connection.recv
\* bytes.replace(old, b"", 1)
RECURSIVE ReplaceFirst(_, _)
ReplaceFirst(s, old) ==
    IF Len(old) <= Len(s) /\ Take(s, Len(old)) = old THEN Drop(s, Len(old))
    ELSE IF s = <<>> THEN <<>>
    ELSE <<Head(s)>> \o ReplaceFirst(Tail(s), old)

\* Variant: the token is looked for anywhere in the message.
RECURSIVE TokenAnywhere(_, _)
TokenAnywhere(client_token, msg) ==
    \/ client_token = Take(msg, Len(client_token))
    \/ msg # <<>> /\ TokenAnywhere(client_token, Tail(msg))

\* self.client_token == msg[:len(self.client_token)]
TokenMatches(client_token, msg) == client_token = Take(msg, Len(client_token))

\* One finished call of recv: what it raised or returned, what it had
\* decrypted, whether the socket was open then, time() and the cooldown
\* then; and, when it was called, whether the client was gone, whether all
\* it had written had arrived, and how many frames it had sent.
Outcome(c, exc, ret, plain, open) ==
    [exc |-> exc, ret |-> ret, plain |-> plain, open |-> open,
     at |-> now, cooldown |-> connection[c].query_cooldown,
     gone |-> rx[c].gone, arrived |-> rx[c].arrived, sent |-> rx[c].sent]

RecvEnds(c, exc, ret, plain, open) ==
    /\ recvLog' = [recvLog EXCEPT ![c] = Append(@, Outcome(c, exc, ret, plain, open))]
    /\ rx' = [rx EXCEPT ![c] = RxIdle]

\* time() - self.last_query < self.query_cooldown
CoolingDown(t, last_query, query_cooldown) == t - last_query < query_cooldown

\* Variant: the timeout is set before the cooldown is looked at.
too_many_queries_sets_timeout(c, timeout) ==
    socks' = [socks EXCEPT ![c].timeout = timeout]

\* raise TooManyQueries: the socket has not been touched.
too_many_queries(c, timeout) == UNCHANGED socks

\* Variant: a message that cannot be decrypted, or carries another token,
\* ends the connection.
recv_raised_closes(c) == close(c)

\* raise UnableToDecrypt / raise InvalidToken: the message has been read and
\* the socket stays as it is.
recv_raised(c) == socks' = [socks EXCEPT ![c].rbuf = Drop(@, rx[c].long)]

\* The cooldown check and conn.settimeout(timeout).
recv_call(c, timeout, calls) ==
    /\ connection[c].made
    /\ rx[c].pc = "idle"
    /\ Len(recvLog[c]) < calls
    /\ IF CoolingDown(now, connection[c].last_query, connection[c].query_cooldown)
       THEN /\ recvLog' = [recvLog EXCEPT ![c] = Append(@,
                  [Outcome(c, "TooManyQueries", <<>>, <<>>, socks[c].open)
                     EXCEPT !.gone = Gone(c), !.arrived = (net[c] = <<>>),
                            !.sent = Len(sendLog[c])])]
            /\ too_many_queries(c, timeout)
            /\ UNCHANGED rx
       ELSE IF ~socks[c].open
       THEN /\ recvLog' = [recvLog EXCEPT ![c] = Append(@,
                  [Outcome(c, "OSError", <<>>, <<>>, FALSE)
                     EXCEPT !.gone = Gone(c), !.arrived = (net[c] = <<>>),
                            !.sent = Len(sendLog[c])])]
            /\ UNCHANGED <<socks, rx>>
       ELSE /\ socks' = [socks EXCEPT ![c].timeout = timeout]
            /\ rx' = [rx EXCEPT ![c] = [pc |-> "len", long |-> 0, read |-> 0,
                                        gone |-> Gone(c),
                                        arrived |-> (net[c] = <<>>),
                                        sent |-> Len(sendLog[c])]]
            /\ UNCHANGED recvLog
    /\ UNCHANGED <<claves, closeLog, drawn, rng, net, reset, wire, peer, kx, oplog, connection,
                   sendLog, txLog, now>>

\* long = int.from_bytes(self.conn.recv(number_size), "big")
recv_len(c) ==
    /\ rx[c].pc = "len"
    /\ \/ /\ SockFails(c)
          /\ RecvEnds(c, "OSError", <<>>, <<>>, socks[c].open)
          /\ UNCHANGED socks
       \/ /\ ~SockFails(c) /\ TimesOut(c)
          /\ RecvEnds(c, "timeout", <<>>, <<>>, socks[c].open)
          /\ UNCHANGED socks
       \/ /\ ~SockFails(c) /\ Readable(c)
          /\ rx' = [rx EXCEPT ![c].pc = "body",
                    ![c].long = from_bytes(Values(Take(socks[c].rbuf, number_size))),
                    ![c].read = Min(number_size, Len(socks[c].rbuf))]
          /\ socks' = [socks EXCEPT ![c].rbuf = Drop(@, number_size)]
          /\ UNCHANGED recvLog
    /\ UNCHANGED <<claves, closeLog, drawn, rng, net, reset, wire, peer, kx, oplog, connection,
                   sendLog, txLog, now>>

\* msg = self.conn.recv(long) and the rest of recv.  socket.recv(0) returns
\* b"" at once.
recv_body(c) ==
    /\ rx[c].pc = "body"
    /\ \/ /\ SockFails(c)
          /\ RecvEnds(c, "OSError", <<>>, <<>>, socks[c].open)
          /\ UNCHANGED <<socks, connection>>
       \/ /\ ~SockFails(c) /\ rx[c].long > 0 /\ TimesOut(c)
          /\ RecvEnds(c, "timeout", <<>>, <<>>, socks[c].open)
          /\ UNCHANGED <<socks, connection>>
       \/ /\ ~SockFails(c) /\ (rx[c].long = 0 \/ Readable(c))
          /\ LET msg == Take(socks[c].rbuf, rx[c].long)
                 plain == decrypt_aes(msg, connection[c].aes_key)
                 rest == ReplaceFirst(plain.val, connection[c].client_token)
                 text == Decode(rest)
             IN IF msg = <<>>
                THEN /\ close(c)
                     /\ RecvEnds(c, "DisconnectedClient", <<>>, <<>>, socks'[c].open)
                     /\ UNCHANGED connection
                ELSE /\ IF ~plain.ok
                        THEN /\ recv_raised(c)
                             /\ RecvEnds(c, "UnableToDecrypt", <<>>, <<>>, socks'[c].open)
                             /\ UNCHANGED connection
                        ELSE IF ~TokenMatches(connection[c].client_token, plain.val)
                        THEN /\ recv_raised(c)
                             /\ RecvEnds(c, "InvalidToken", <<>>, plain.val, socks'[c].open)
                             /\ UNCHANGED connection
                        ELSE /\ socks' = [socks EXCEPT ![c].rbuf = Drop(@, rx[c].long)]
                             /\ connection' = [connection EXCEPT ![c].last_query = now]
                             /\ IF text.ok
                                THEN RecvEnds(c, "none", text.val, plain.val, socks'[c].open)
                                ELSE RecvEnds(c, "UnicodeDecodeError", <<>>, plain.val,
                                              socks'[c].open)
    /\ UNCHANGED <<claves, closeLog, drawn, rng, net, reset, wire, peer, kx, oplog, sendLog, txLog, now>>

\* ------------------------------------------------------------ the client's session
\* The payloads a client sends: "A" (its token's byte), and a byte that is
\* no UTF-8.
ClientBodies == {<<65>>, <<255>>}

ClientSent(c, token, body, whole) ==
    sendLog' = [sendLog EXCEPT ![c] = Append(@,
        [token |-> token, body |-> body, whole |-> whole,
         conforming |-> token = peer[c].token /\ Decode(body).ok])]

PeerTokens(c) == {peer[c].token, peer[c].server_token}

\* The client's send: its token (or, departing from the protocol, the
\* server's) before the payload, one whole frame.
client_send(c, token, body, iv, sends) ==
    /\ peer[c].pc = "established" /\ Connected(c)
    /\ Len(sendLog[c]) < sends
    /\ net' = [net EXCEPT ![c] = @ \o Frame(token, body, peer[c].aes_key, iv)]
    /\ ClientSent(c, token, body, TRUE)
    /\ UNCHANGED <<claves, closeLog, drawn, rng, socks, reset, wire, peer, kx, oplog, connection, rx,
                   recvLog, txLog, now>>

\* The client's end closes when only the first n bytes of a frame are written.
client_cut(c, body, iv, n, sends) ==
    /\ peer[c].pc = "established" /\ Connected(c)
    /\ Len(sendLog[c]) < sends
    /\ LET frame == Frame(peer[c].token, body, peer[c].aes_key, iv) IN
       /\ n \in 1..(Len(frame) - 1)
       /\ net' = [net EXCEPT ![c] = @ \o Take(frame, n)]
    /\ ClientSent(c, peer[c].token, body, FALSE)
    /\ peer' = [peer EXCEPT ![c].closed = TRUE]
    /\ UNCHANGED <<claves, closeLog, drawn, rng, socks, reset, wire, kx, oplog, connection, rx,
                   recvLog, txLog, now>>

\* A key that is not the connection's.
StrayKey == <<0>>

\* The client sends a whole frame whose ciphertext is not under the
\* connection's symmetric key.
client_garble(c, body, iv, sends) ==
    /\ peer[c].pc = "established" /\ Connected(c)
    /\ Len(sendLog[c]) < sends
    /\ net' = [net EXCEPT ![c] = @ \o Frame(peer[c].token, body, StrayKey, iv)]
    /\ sendLog' = [sendLog EXCEPT ![c] = Append(@,
          [token |-> peer[c].token, body |-> body, whole |-> TRUE, conforming |-> FALSE])]
    /\ UNCHANGED <<claves, closeLog, drawn, rng, socks, reset, wire, peer, kx, oplog,
                   connection, rx, recvLog, txLog, now>>

\* ------------------------------------------------------------ specifications
\* Spec: one connection, from the accepted socket through the key exchange
\* to a session in which the server receives, against a client that may
\* depart from the protocol.
Next ==
    \/ \E c \in Conns, t \in Timeouts : key_exchange_1(c, t)
    \/ \E c \in Conns : key_exchange_2(c)
    \/ \E c \in Conns : key_exchange_3(c)
    \/ \E c \in Conns : key_exchange_4(c)
    \/ \E c \in Conns : key_exchange_5(c)
    \/ \E c \in Conns, p \in HelloPayloads : client_hello(c, p)
    \/ \E c \in Conns : client_junk(c)
    \/ \E c \in Conns, t \in ClientTokens : client_reply(c, t)
    \/ \E c \in Conns : client_finish(c)
    \/ \E c \in Conns : client_close(c)
    \/ \E c \in Conns : \E n \in 1..Len(net[c]) : Deliver(c, n)
    \/ \E c \in Conns : NetReset(c)
    \/ \E c \in Conns, t \in Timeouts : recv_call(c, t, MaxRecvs)
    \/ \E c \in Conns : recv_len(c)
    \/ \E c \in Conns : recv_body(c)
    \/ \E c \in Conns : \E t \in PeerTokens(c), b \in ClientBodies, iv \in CtValues :
          client_send(c, t, b, iv, MaxClientSends)
    \/ \E c \in Conns, b \in ClientBodies, iv \in CtValues :
          \E n \in 1..(token_size + number_size + Len(b)) :
             client_cut(c, b, iv, n, MaxClientSends)

Spec == Init /\ [][Next]_vars

\* SpecStream: one connection whose client follows the protocol and sends
\* several messages, which the network delivers in pieces.
StreamBodies == {Encode(<<65>>), Encode(<<233>>)}

StreamNext ==
    \/ \E c \in Conns, t \in Timeouts : key_exchange_1(c, t)
    \/ \E c \in Conns : key_exchange_2(c)
    \/ \E c \in Conns : key_exchange_3(c)
    \/ \E c \in Conns : key_exchange_4(c)
    \/ \E c \in Conns : key_exchange_5(c)
    \/ \E c \in Conns : client_hello(c, Encode(ClientKeys.PUBLIC))
    \/ \E c \in Conns, t \in ClientTokens : client_reply(c, t)
    \/ \E c \in Conns : client_finish(c)
    \/ \E c \in Conns : client_close(c)
    \/ \E c \in Conns : \E n \in 1..Len(net[c]) : Deliver(c, n)
    \/ \E c \in Conns, t \in Timeouts : recv_call(c, t, MaxRecvs + 1)
    \/ \E c \in Conns : recv_len(c)
    \/ \E c \in Conns : recv_body(c)
    \/ \E c \in Conns, b \in StreamBodies, iv \in CtValues :
          client_send(c, peer[c].token, b, iv, MaxClientSends + 1)
    \/ \E c \in Conns, b \in StreamBodies, iv \in CtValues :
          \E n \in 1..(token_size + number_size + Len(b)) :
             client_cut(c, b, iv, n, MaxClientSends + 1)

SpecStream == Init /\ [][StreamNext]_vars

\* SpecSend: one connection, the key exchange and then the server's sends.
SendNext ==
    \/ \E c \in Conns, t \in Timeouts : key_exchange_1(c, t)
    \/ \E c \in Conns : key_exchange_2(c)
    \/ \E c \in Conns : key_exchange_3(c)
    \/ \E c \in Conns : key_exchange_4(c)
    \/ \E c \in Conns : key_exchange_5(c)
    \/ \E c \in Conns, p \in HelloPayloads : client_hello(c, p)
    \/ \E c \in Conns, t \in ClientTokens : client_reply(c, t)
    \/ \E c \in Conns : client_finish(c)
    \/ \E c \in Conns : client_close(c)
    \/ \E c \in Conns : \E n \in 1..Len(net[c]) : Deliver(c, n)
    \/ \E c \in Conns : NetReset(c)
    \/ \E c \in Conns : Connection_close(c, MaxCloses)
    \/ \E c \in Conns, s \in Strings, iv \in CtValues : Connection_send(c, s, iv)

SpecSend == Init /\ [][SendNext]_vars

\* SpecHandshake: two connections whose key exchanges interleave.
HandshakeNext ==
    \/ \E c \in Conns, t \in Timeouts : key_exchange_1(c, t)
    \/ \E c \in Conns : key_exchange_2(c)
    \/ \E c \in Conns : key_exchange_3(c)
    \/ \E c \in Conns : key_exchange_4(c)
    \/ \E c \in Conns : key_exchange_5(c)
    \/ \E c \in Conns, p \in HelloPayloads : client_hello(c, p)
    \/ \E c \in Conns : client_junk(c)
    \/ \E c \in Conns, t \in ClientTokens : client_reply(c, t)
    \/ \E c \in Conns : client_finish(c)
    \/ \E c \in Conns : client_close(c)
    \/ \E c \in Conns : \E n \in 1..Len(net[c]) : Deliver(c, n)
    \/ \E c \in Conns : NetReset(c)

InitHandshake == InitFor({1, 2})
SpecHandshake == InitHandshake /\ [][HandshakeNext]_vars

\* SpecSession: one connection on which the application sends, receives and
\* closes, in any order and more than once, while the client sends messages
\* or closes, or the transport breaks.
SessionNext ==
    \/ \E c \in Conns, t \in Timeouts : key_exchange_1(c, t)
    \/ \E c \in Conns : key_exchange_2(c)
    \/ \E c \in Conns : key_exchange_3(c)
    \/ \E c \in Conns : key_exchange_4(c)
    \/ \E c \in Conns : key_exchange_5(c)
    \/ \E c \in Conns : client_hello(c, Encode(ClientKeys.PUBLIC))
    \/ \E c \in Conns, t \in ClientTokens : client_reply(c, t)
    \/ \E c \in Conns : client_finish(c)
    \/ \E c \in Conns : client_close(c)
    \/ \E c \in Conns : net[c] # <<>> /\ Deliver(c, Len(net[c]))
    \/ \E c \in Conns : NetReset(c)
    \/ \E c \in Conns : Connection_close(c, MaxCloses)
    \/ \E c \in Conns, s \in Strings, iv \in CtValues \ {0} : Connection_send(c, s, iv)
    \/ \E c \in Conns, t \in Timeouts : recv_call(c, t, MaxRecvs)
    \/ \E c \in Conns : recv_len(c)
    \/ \E c \in Conns : recv_body(c)
    \/ \E c \in Conns, b \in ClientBodies \cap StreamBodies, iv \in CtValues \ {0} :
          client_send(c, peer[c].token, b, iv, MaxClientSends)

SpecSession == Init /\ [][SessionNext]_vars

\* SpecContent: one connection whose client keeps to the handshake and then
\* sends whole messages, some with the wrong token and some under the wrong
\* key.
ContentNext ==
    \/ \E c \in Conns, t \in Timeouts : key_exchange_1(c, t)
    \/ \E c \in Conns : key_exchange_2(c)
    \/ \E c \in Conns : key_exchange_3(c)
    \/ \E c \in Conns : key_exchange_4(c)
    \/ \E c \in Conns : key_exchange_5(c)
    \/ \E c \in Conns : client_hello(c, Encode(ClientKeys.PUBLIC))
    \/ \E c \in Conns, t \in ClientTokens : client_reply(c, t)
    \/ \E c \in Conns : client_finish(c)
    \/ \E c \in Conns : net[c] # <<>> /\ Deliver(c, Len(net[c]))
    \/ \E c \in Conns, t \in Timeouts : recv_call(c, t, MaxRecvs)
    \/ \E c \in Conns : recv_len(c)
    \/ \E c \in Conns : recv_body(c)
    \/ \E c \in Conns : \E t \in PeerTokens(c), b \in StreamBodies, iv \in CtValues \ {0} :
          client_send(c, t, b, iv, MaxClientSends + 1)
    \/ \E c \in Conns, b \in StreamBodies, iv \in CtValues \ {0} :
          client_garble(c, b, iv, MaxClientSends + 1)

SpecContent == Init /\ [][ContentNext]_vars

\* SpecCooldown: one connection whose application sets a cooldown and
\* receives while time passes; the client keeps to the handshake and then
\* sends messages.
CooldownNext ==
    \/ \E c \in Conns, t \in Timeouts : key_exchange_1(c, t)
    \/ \E c \in Conns : key_exchange_2(c)
    \/ \E c \in Conns : key_exchange_3(c)
    \/ \E c \in Conns : key_exchange_4(c)
    \/ \E c \in Conns : key_exchange_5(c)
    \/ \E c \in Conns : client_hello(c, Encode(ClientKeys.PUBLIC))
    \/ \E c \in Conns, t \in ClientTokens : client_reply(c, t)
    \/ \E c \in Conns : client_finish(c)
    \/ \E c \in Conns : net[c] # <<>> /\ Deliver(c, Len(net[c]))
    \/ \E c \in Conns, cd \in Cooldowns : set_query_cooldown(c, cd)
    \/ Tick
    \/ \E c \in Conns, t \in Timeouts : recv_call(c, t, MaxRecvs)
    \/ \E c \in Conns : recv_len(c)
    \/ \E c \in Conns : recv_body(c)
    \/ \E c \in Conns, b \in ClientBodies \cap StreamBodies, iv \in CtValues \ {0} :
          client_send(c, peer[c].token, b, iv, MaxClientSends + 1)

SpecCooldown == Init /\ [][CooldownNext]_vars

\* SpecWindow: as SpecCooldown, with one more recv and with messages that are
\* no UTF-8, so that a cooldown window has receives of every kind inside it.
WindowNext ==
    \/ \E c \in Conns, t \in Timeouts : key_exchange_1(c, t)
    \/ \E c \in Conns : key_exchange_2(c)
    \/ \E c \in Conns : key_exchange_3(c)
    \/ \E c \in Conns : key_exchange_4(c)
    \/ \E c \in Conns : key_exchange_5(c)
    \/ \E c \in Conns : client_hello(c, Encode(ClientKeys.PUBLIC))
    \/ \E c \in Conns, t \in ClientTokens : client_reply(c, t)
    \/ \E c \in Conns : client_finish(c)
    \/ \E c \in Conns : net[c] # <<>> /\ Deliver(c, Len(net[c]))
    \/ \E c \in Conns, cd \in Cooldowns : set_query_cooldown(c, cd)
    \/ Tick
    \/ \E c \in Conns, t \in Timeouts : recv_call(c, t, MaxRecvs + 1)
    \/ \E c \in Conns : recv_len(c)
    \/ \E c \in Conns : recv_body(c)
    \/ \E c \in Conns, b \in ClientBodies, iv \in CtValues \ {0} :
          client_send(c, peer[c].token, b, iv, MaxClientSends + 1)

SpecWindow == Init /\ [][WindowNext]_vars

\* SpecPair: two connections, each from its key exchange to a session in
\* which the application sets a cooldown, receives and closes; the steps of
\* the two interleave in every way.
PairNext ==
    \/ \E c \in Conns, t \in Timeouts \ {"finite"} : key_exchange_1(c, t)
    \/ \E c \in Conns : key_exchange_2(c)
    \/ \E c \in Conns : key_exchange_3(c)
    \/ \E c \in Conns : key_exchange_4(c)
    \/ \E c \in Conns : key_exchange_5(c)
    \/ \E c \in Conns : client_hello(c, Encode(ClientKeys.PUBLIC))
    \/ \E c \in Conns, t \in ClientTokens : client_reply(c, t)
    \/ \E c \in Conns : client_finish(c)
    \/ \E c \in Conns : net[c] # <<>> /\ Deliver(c, Len(net[c]))
    \/ \E c \in Conns, cd \in Cooldowns \ {0} : set_query_cooldown(c, cd)
    \/ \E c \in Conns : socks[c].open /\ Connection_close(c, MaxCloses)
    \/ \E c \in Conns, t \in Timeouts \ {"finite"} : recv_call(c, t, MaxRecvs - 1)
    \/ \E c \in Conns : recv_len(c)
    \/ \E c \in Conns : recv_body(c)
    \/ \E c \in Conns, b \in ClientBodies \cap StreamBodies, iv \in CtValues \ {0} :
          client_send(c, peer[c].token, b, iv, MaxClientSends)

SpecPair == InitHandshake /\ [][PairNext]_vars

\* ------------------------------------------------------------ properties
\* The public key the client sent in step 2, as key_exchange read it.
PublicRead(c) ==
    Decode(decrypt_rsa(oplog[c][2].data, claves.PRIVATE).val).val

\* An RSA message for the client holding m.
ForClient(c, data, m) ==
    /\ Len(data) = 1
    /\ data[1].t = "rsa" /\ data[1].k = PublicRead(c) /\ data[1].m = m

StepsDone(pc) ==
    CASE pc = "start" -> {0} [] pc = "s1" -> {1} [] pc = "s2" -> {2}
      [] pc = "s3" -> {3} [] pc = "s4" -> {4} [] pc = "done" -> {5}
      [] pc = "failed" -> 0..4

\* The i-th socket operation of key_exchange on c is step i of the protocol.
StepIsProtocol(c, i) ==
    LET e == oplog[c][i] IN
    /\ e.step = i
    /\ CASE i = 1 -> e.op = "send" /\ e.data = <<PlainBlob(claves.PUBLIC)>>
         [] i = 2 -> e.op = "recv" /\ decrypt_rsa(e.data, claves.PRIVATE).ok
         [] i = 3 -> /\ e.op = "send"
                     /\ \E m \in drawn[c] : ForClient(c, e.data, m)
                     /\ kx[c].pc \in {"s3", "s4"} => ForClient(c, e.data, kx[c].server_token)
                     /\ kx[c].pc = "done" => ForClient(c, e.data, connection[c].server_token)
         [] i = 4 -> /\ e.op = "recv" /\ decrypt_rsa(e.data, claves.PRIVATE).ok
                     /\ kx[c].pc = "s4" =>
                          kx[c].token = decrypt_rsa(e.data, claves.PRIVATE).val
         [] i = 5 -> /\ e.op = "send"
                     /\ ForClient(c, e.data, connection[c].aes_key)
                     /\ e.data # oplog[c][3].data
         [] OTHER -> FALSE

\* The handshake messages the server wrote on c.
Written(c) == SelectSeq(wire[c], LAMBDA e : e.t # "byte")
Sends(c) == SelectSeq(oplog[c], LAMBDA e : e.op = "send")

\* C1: on every connection the socket operations key_exchange has completed
\* are steps 1..k of the protocol, in order and each with its own content
\* (public key in plaintext; client's key decrypted with the private key;
\* server-token under the client's key; client-token decrypted with the
\* private key; symmetric key under the client's key), k is the step the
\* call has reached, and what it wrote to the socket is exactly the sends
\* among them.
C1_HandshakeOrder ==
    \A c \in Conns :
        /\ Len(oplog[c]) \in StepsDone(kx[c].pc)
        /\ \A i \in 1..Len(oplog[c]) : StepIsProtocol(c, i)
        /\ Len(Written(c)) = Len(Sends(c))
        /\ \A j \in 1..Len(Sends(c)) : Sends(c)[j].data = <<Written(c)[j]>>

C1_Witness ==
    \E c \in Conns : kx[c].pc = "done" /\ Len(oplog[c]) = 5 /\ Len(Written(c)) = 3

\* What the key exchange on c holds or has handed to its Connection.
Held(c) ==
    {kx[c].aes_key, kx[c].server_token, kx[c].token, connection[c].aes_key,
     connection[c].server_token, connection[c].client_token} \ {NoBytes}

C3_SameSecrets ==
    \A c \in Conns :
        connection[c].made =>
            /\ Len(oplog[c]) = 5
            /\ connection[c].aes_key = oplog[c][5].data[1].m
            /\ connection[c].server_token = oplog[c][3].data[1].m
            /\ connection[c].client_token =
                  decrypt_rsa(oplog[c][4].data, claves.PRIVATE).val
            /\ (peer[c].conforming /\ peer[c].pc = "established") =>
                  /\ connection[c].aes_key = peer[c].aes_key
                  /\ connection[c].server_token = peer[c].server_token
                  /\ connection[c].client_token = peer[c].token

C3_Witness ==
    \E c \in Conns :
        /\ connection[c].made /\ peer[c].conforming /\ peer[c].pc = "established"
        /\ peer[c].token # peer[c].server_token

\* s occurs in b as a run of bytes.
Occurs(s, b) ==
    s # <<>> /\ \E i \in 1..Len(b) : Len(b) >= i + Len(s) - 1 /\ SubSeq(b, i, i + Len(s) - 1) = s

\* The secrets of connection c.
Secrets(c) == drawn[c] \cup Held(c) \cup ({peer[c].token} \ {NoBytes})

\* C4: of all the server has written on a connection, the only handshake
\* message written as it is is the server's public key, every other
\* handshake message is encrypted under the client's public key, no bytes
\* written as they are contain the symmetric key or a token, and every
\* encrypted byte of the session is under the connection's symmetric key.
C4_NoPlaintextSecrets ==
    \A c \in Conns : \A j \in 1..Len(wire[c]) :
        LET e == wire[c][j] IN
        /\ e.t \in {"plain", "rsa", "byte"}
        /\ e.t = "plain" => e.m = claves.PUBLIC
        /\ e.t = "rsa" => e.k = ClientKeys.PUBLIC
        /\ e.t # "rsa" /\ e.k = NoBytes => \A s \in Secrets(c) : ~Occurs(s, e.m)
        /\ e.t = "byte" /\ e.k # NoBytes => e.k = connection[c].aes_key

\* The server has sent a message of the session: its token travels in
\* ciphertext.
C4_Witness ==
    \E c \in Conns : \E j \in 1..Len(wire[c]) :
        /\ wire[c][j].t = "byte" /\ wire[c][j].k = connection[c].aes_key
        /\ Occurs(connection[c].server_token, wire[c][j].m)
        /\ Len(Written(c)) = 3

\* C9: every send that raised DisconnectedClient had closed the socket by
\* then and wrote nothing, and the socket is closed ever after; a send that
\* returned had its write accepted.
C9_SendFailureCloses ==
    \A c \in Conns : \A i \in 1..Len(txLog[c]) :
        LET e == txLog[c][i] IN
        /\ e.exc = "DisconnectedClient" => ~e.open /\ ~socks[c].open /\ e.wrote = 0
        /\ e.exc = "none" => e.wrote > 0

C9_Witness ==
    \E c \in Conns : \E i \in 1..Len(txLog[c]) :
        txLog[c][i].exc = "DisconnectedClient" /\ ~reset[c]

\* C7: every recv that returned a payload had decrypted a message that
\* begins with the client-token and returned the rest of it, nothing more;
\* every recv whose decrypted message did not begin with the client-token
\* raised InvalidToken; and a recv that raised returned nothing.
C7_TokenChecked ==
    \A c \in Conns : \A i \in 1..Len(recvLog[c]) :
        LET e == recvLog[c][i]
            token == connection[c].client_token
        IN /\ e.exc = "none" =>
                /\ Len(e.plain) >= Len(token)
                /\ SubSeq(e.plain, 1, Len(token)) = token
                /\ Encode(e.ret) = SubSeq(e.plain, Len(token) + 1, Len(e.plain))
           /\ (e.plain # <<>> /\ SubSeq(e.plain, 1, Min(Len(token), Len(e.plain))) # token)
                => e.exc = "InvalidToken"
           /\ e.exc # "none" => e.ret = <<>>

\* A recv decrypted a message that begins with another token, and raised.
C7_Witness ==
    \E c \in Conns : \E i \in 1..Len(recvLog[c]) :
        /\ recvLog[c][i].exc = "InvalidToken"
        /\ recvLog[c][i].plain # <<>>
        /\ Occurs(connection[c].client_token, recvLog[c][i].plain)

\* The first k calls of recv on c all returned a payload.
AllReturned(c, k) == \A j \in 1..k : recvLog[c][j].exc = "none"

\* C5 (as the specification states it): when the client has sent its k-th message whole
\* before the k-th recv is called, and every earlier recv returned, the k-th
\* recv, unless it times out, returns the payload of that message.
C5_RoundTrip ==
    \A c \in Conns : \A k \in 1..Len(recvLog[c]) :
        ( /\ k <= Len(sendLog[c]) /\ sendLog[c][k].whole /\ sendLog[c][k].conforming
          /\ recvLog[c][k].sent >= k
          /\ AllReturned(c, k - 1)
          /\ recvLog[c][k].exc # "timeout" )
        => /\ recvLog[c][k].exc = "none"
           /\ Encode(recvLog[c][k].ret) = sendLog[c][k].body

\* The calls of recv on c that returned a payload, in order.
Returned(c) == SelectSeq(recvLog[c], LAMBDA e : e.exc = "none")

\* C6 (as the specification states it): the k-th recv that returns a payload returns
\* the payload of the client's k-th send.
C6_InOrder ==
    \A c \in Conns : \A k \in 1..Len(Returned(c)) :
        /\ k <= Len(sendLog[c])
        /\ Encode(Returned(c)[k].ret) = sendLog[c][k].body

\* The frames the client wrote whole.
Whole(c) == SelectSeq(sendLog[c], LAMBDA f : f.whole)

\* C8 (as the specification states it): when recv is called with the stream at a
\* message boundary (every earlier recv returned one of the client's whole
\* messages, and none is left), the client has closed and all it wrote
\* before closing (nothing, or the first bytes of a frame) has arrived, recv
\* raises DisconnectedClient and the socket is closed by then.
C8_DisconnectMidFrame ==
    \A c \in Conns : \A k \in 1..Len(recvLog[c]) :
        ( /\ recvLog[c][k].gone
          /\ AllReturned(c, k - 1)
          /\ Len(Whole(c)) = k - 1 )
        => /\ recvLog[c][k].exc = "DisconnectedClient"
           /\ ~recvLog[c][k].open

\* C10 (as the specification states it): a recv that timed out, after recvs that all
\* returned, left the socket open, and the recv after it, called when the
\* client's next message has been sent whole and all of it has arrived,
\* returns that message.
C10_TimeoutRecovers ==
    \A c \in Conns : \A k \in 1..Len(recvLog[c]) :
        (recvLog[c][k].exc = "timeout" /\ AllReturned(c, k - 1))
        => /\ recvLog[c][k].open
           /\ ( /\ k + 1 <= Len(recvLog[c])
                /\ k <= Len(sendLog[c]) /\ sendLog[c][k].whole
                /\ recvLog[c][k + 1].sent >= k
                /\ recvLog[c][k + 1].arrived )
              => /\ recvLog[c][k + 1].exc = "none"
                 /\ Encode(recvLog[c][k + 1].ret) = sendLog[c][k].body

\* The step is a call of recv on c.
RecvCalled(c) ==
    /\ rx[c].pc = "idle"
    /\ rx'[c].pc = "len" \/ Len(recvLog'[c]) = Len(recvLog[c]) + 1

\* The step ends a call of recv on c with exc.
RecvRaised(c, exc) ==
    /\ Len(recvLog'[c]) = Len(recvLog[c]) + 1
    /\ recvLog'[c][Len(recvLog'[c])].exc = exc

\* A recv that returned a payload did so less than the cooldown ago.
WithinCooldown(c) ==
    \E j \in 1..Len(recvLog[c]) :
        /\ recvLog[c][j].exc = "none"
        /\ now - recvLog[c][j].at < connection[c].query_cooldown

\* C11: a recv called less than the cooldown after a recv that returned a
\* payload raises TooManyQueries at once; and a recv that raises
\* TooManyQueries has read no byte and leaves the socket (its timeout, its
\* buffer, open or closed), the Connection (last_query, cooldown), what is in
\* flight and the clock as they were.
C11_TooManyQueriesInert ==
    [][\A c \in Conns :
          /\ (RecvCalled(c) /\ WithinCooldown(c)) => RecvRaised(c, "TooManyQueries")
          /\ RecvRaised(c, "TooManyQueries") =>
                /\ RecvCalled(c)
                /\ recvLog'[c][Len(recvLog'[c])].open = socks[c].open
                /\ UNCHANGED <<socks, connection, rx, net, wire, now>>]_vars

\* A recv raised TooManyQueries after one that returned, with a message
\* waiting in the socket's buffer and a timeout unlike the one set.
C11_Witness ==
    \E c \in Conns : \E k \in 2..Len(recvLog[c]) :
        /\ recvLog[c][k].exc = "TooManyQueries"
        /\ recvLog[c][k - 1].exc = "none"
        /\ k = Len(recvLog[c]) /\ socks[c].rbuf # <<>> /\ socks[c].open

\* C12 (as the specification states it): a recv is rejected with
\* TooManyQueries only less than the cooldown after a recv that returned a
\* payload: once recvs have returned, one called the cooldown or more after
\* the last of them is not rejected, whatever failed in between.
C12_CooldownElapsed ==
    \A c \in Conns : \A k \in 1..Len(recvLog[c]) :
        ( /\ recvLog[c][k].exc = "TooManyQueries"
          /\ \E j \in 1..(k - 1) : recvLog[c][j].exc = "none" )
        => \E j \in 1..(k - 1) :
              /\ recvLog[c][j].exc = "none"
              /\ recvLog[c][k].at - recvLog[c][j].at < recvLog[c][k].cooldown

\* The step ends a call of send on c with exc.
SendEnded(c, exc) ==
    /\ Len(txLog'[c]) = Len(txLog[c]) + 1
    /\ txLog'[c][Len(txLog'[c])].exc = exc

\* close was called on c, or a send or a recv on c raised DisconnectedClient.
WasClosed(c) ==
    \/ closeLog[c] # <<>>
    \/ \E i \in 1..Len(txLog[c]) : txLog[c][i].exc = "DisconnectedClient"
    \/ \E i \in 1..Len(recvLog[c]) : recvLog[c][i].exc = "DisconnectedClient"

\* C13: a Connection exists only once the key exchange has returned it, and
\* send and recv run only on a Connection; after close, a failed send or a
\* detected disconnect the socket is closed; a closed socket never opens
\* again; a send or a recv that returns does so on an open socket, and on a
\* closed one every send and every recv raises.
C13_ClosedIsTerminal ==
    /\ [](\A c \in Conns :
            /\ connection[c].made => kx[c].pc = "done"
            /\ (txLog[c] # <<>> \/ recvLog[c] # <<>> \/ rx[c].pc # "idle")
                  => connection[c].made
            /\ WasClosed(c) => ~socks[c].open)
    /\ [][\A c \in Conns :
            /\ ~socks[c].open => ~socks'[c].open
            /\ SendEnded(c, "none") => socks[c].open /\ socks'[c].open
            /\ RecvRaised(c, "none") => socks[c].open /\ socks'[c].open
            /\ (RecvCalled(c) /\ ~socks[c].open) =>
                  RecvRaised(c, "OSError") \/ RecvRaised(c, "TooManyQueries")
            /\ (Len(txLog'[c]) > Len(txLog[c]) /\ ~socks[c].open) =>
                  SendEnded(c, "DisconnectedClient") \/ SendEnded(c, "OverflowError")]_vars

\* A recv detected the disconnect and closed; the recv and the send after it
\* failed, and close was called twice more.
C13_Witness ==
    \E c \in Conns : \E k \in 1..(Len(recvLog[c]) - 1) :
        /\ recvLog[c][k].exc = "DisconnectedClient"
        /\ recvLog[c][k + 1].exc = "OSError"
        /\ \E i \in 1..Len(txLog[c]) :
              txLog[c][i].exc = "DisconnectedClient" /\ ~reset[c]
        /\ Len(closeLog[c]) = MaxCloses /\ ~closeLog[c][1].was_open

\* Each of the first k calls of recv on c was made when the client's message
\* of the same rank had been sent whole and had arrived.
EachArrived(c, k) ==
    \A j \in 1..k :
        /\ j <= Len(sendLog[c]) /\ sendLog[c][j].whole
        /\ recvLog[c][j].arrived /\ recvLog[c][j].sent >= j

C15_CloseIdempotent ==
    \A c \in Conns :
        /\ \A i \in 1..Len(closeLog[c]) : closeLog[c][i].exc = "none" /\ ~closeLog[c][i].open
        /\ closeLog[c] # <<>> => ~socks[c].open

\* close was called on a socket the client had half-closed, and again once
\* it was closed.
C15_Witness ==
    \E c \in Conns :
        /\ Len(closeLog[c]) >= 2
        /\ closeLog[c][1].was_open /\ closeLog[c][1].half /\ ~closeLog[c][1].reset
        /\ ~closeLog[c][2].was_open

\* C16 (as the specification states it): every send that returned wrote one
\* complete frame: the length of the ciphertext on number_size bytes, then
\* every byte of the ciphertext of the server-token and the payload, under
\* the connection's key.
C16_WholeFrame ==
    \A c \in Conns : \A i \in 1..Len(txLog[c]) :
        LET e == txLog[c][i]
            ct == Drop(e.frame, number_size)
        IN e.exc = "none" =>
              /\ Values(Take(e.frame, number_size)) = to_bytes(Len(ct), number_size)
              /\ decrypt_aes(ct, connection[c].aes_key).ok
              /\ TokenMatches(connection[c].server_token,
                              decrypt_aes(ct, connection[c].aes_key).val)
              /\ e.wrote = Len(e.frame)

\* C17 (as the specification states it): a recv called with the stream at a
\* frame boundary (every earlier recv returned a message) and the client's
\* next frame sent whole, which reads a frame (neither socket call raised),
\* has read all number_size bytes of the prefix and then all the ciphertext
\* bytes the prefix announces, those of that frame.
C17_ExactRead ==
    [][\A c \in Conns :
          LET k == Len(recvLog'[c]) IN
          ( /\ Len(recvLog'[c]) = Len(recvLog[c]) + 1
            /\ rx[c].pc = "body"
            /\ recvLog'[c][k].exc \notin {"OSError", "timeout"}
            /\ AllReturned(c, k - 1)
            /\ k <= Len(sendLog[c]) /\ sendLog[c][k].whole /\ rx[c].sent >= k )
          => /\ rx[c].read = number_size
             /\ rx[c].long = token_size + Len(sendLog[c][k].body)
             /\ Len(socks[c].rbuf) >= rx[c].long]_vars

\* C19 (as the specification states it): last_query changes only in the
\* step in which a recv returns a payload.
C19_LastQueryOnlyOnReturn ==
    [][\A c \in Conns :
          connection'[c].last_query # connection[c].last_query
             => RecvRaised(c, "none")]_vars

\* C20 (as the specification states it): a recv raises DisconnectedClient, and
\* a recv closes the socket, only when the client has closed its end.
C20_DisconnectOnlyWhenClosed ==
    [][\A c \in Conns :
          ( \/ RecvRaised(c, "DisconnectedClient")
            \/ rx[c].pc # "idle" /\ socks[c].open /\ ~socks'[c].open )
          => peer[c].closed]_vars

\* What the server holds for connection c: the frame of its key exchange,
\* the values drawn for it, its Connection object, its socket, the frame of
\* its recv, and the calls made on it.
Own(c) ==
    <<kx[c], drawn[c], oplog[c], wire[c], connection[c], socks[c], rx[c],
      recvLog[c], txLog[c], closeLog[c]>>

\* C18: no step changes the server's key pair; no step changes what the
\* server holds for two connections at once, so that a step of the key
\* exchange or of the session of one connection leaves the secrets,
\* last_query, the cooldown and the socket of every other as they were; and
\* the symmetric key and the server-token of a Connection are values drawn in
\* its own key exchange, which no other key exchange drew.
C18_Independent ==
    /\ [](\A c \in Conns :
            /\ claves = ServerKeys
            /\ connection[c].made =>
                  {connection[c].aes_key, connection[c].server_token} \subseteq drawn[c]
            /\ \A d \in Conns \ {c} : drawn[c] \cap drawn[d] = {})
    /\ [][\A c \in Conns : \A d \in Conns \ {c} :
            Own(c)' # Own(c) => Own(d)' = Own(d)]_vars

\* Two sessions that went different ways: one connection closed, the other
\* open with a cooldown set and a message received.
C18_Witness ==
    \E c \in Conns : \E d \in Conns \ {c} :
        /\ connection[c].made /\ connection[d].made
        /\ ~socks[c].open /\ socks[d].open
        /\ connection[d].query_cooldown # connection[c].query_cooldown
        /\ connection[d].last_query # connection[c].last_query
        /\ connection[c].aes_key # connection[d].aes_key

====
